---- MODULE Spec2Model ----
(***************************************************************************)
(* Model of the rollout-server schedule engine (src/app/HoustonScheduler.ts,*)
(* the class exported from line 220 on) and of the /upcoming handler of     *)
(* src/app/App.ts.                                                          *)
(*                                                                          *)
(* A calendar date is the number of days since 1970-01-01 (a moment at      *)
(* startOf('day')).  Strings are TLA+ strings; a character is a string of   *)
(* length one.  A JavaScript number is an integer or NaN, a value apart     *)
(* from the numbers the program computes with: every comparison with NaN    *)
(* is false, as in JavaScript.  A value that may be undefined is a sequence *)
(* of length at most one, empty when undefined.                             *)
(***************************************************************************)
EXTENDS Integers, Sequences, FiniteSets, TLC

(***************************************************************************)
(* Bounds of the model.                                                     *)
(***************************************************************************)
\* first start date of the engine specification: 2015-12-07 + FirstStartOffset
FirstStartOffset == 0
\* number of start dates and the distance between two of them
NumStarts == 27
StartStep == 29
\* largest number of days a request asks to go back (days = -1 .. -MaxBack)
MaxBack == 2
\* largest explicit positive window of the server specification
MaxDaysAsked == 3
\* largest ordinal of a heavy-pickup string: "1st" .. "5th"
MaxOrdinal == 5

(***************************************************************************)
(* Calendar arithmetic of the moment library, as the scheduler uses it.     *)
(***************************************************************************)
\* the encoding of NaN: no day index, ordinal or day count equals it
NaN == -1000000

IsNum(v) == v # NaN

\* JavaScript a == b on numbers: false when either side is NaN
JsEq(a, b) == IsNum(a) /\ IsNum(b) /\ a = b

\* JavaScript a < b on numbers: false when either side is NaN
JsLt(a, b) == IsNum(a) /\ IsNum(b) /\ a < b

IsLeapYear(y) == (y % 4 = 0 /\ y % 100 # 0) \/ y % 400 = 0

DaysInYear(y) == IF IsLeapYear(y) THEN 366 ELSE 365

\* days since 1970-01-01 of the civil date y-m-d (m is 1-based)
DaysFromCivil(y, m, d) ==
  LET yy  == IF m <= 2 THEN y - 1 ELSE y
      era == yy \div 400
      yoe == yy - era * 400
      mp  == IF m > 2 THEN m - 3 ELSE m + 9
      doy == (153 * mp + 2) \div 5 + d - 1
      doe == yoe * 365 + yoe \div 4 - yoe \div 100 + doy
  IN  era * 146097 + doe - 719468

\* the civil date of day number z: [year, month (1-based), date]
CivilFromDays(z) ==
  LET zz  == z + 719468
      era == zz \div 146097
      doe == zz - era * 146097
      yoe == (doe - doe \div 1460 + doe \div 36524 - doe \div 146096) \div 365
      doy == doe - (365 * yoe + yoe \div 4 - yoe \div 100)
      mp  == (5 * doy + 2) \div 153
      d   == doy - (153 * mp + 2) \div 5 + 1
      m   == IF mp < 10 THEN mp + 3 ELSE mp - 9
      y   == yoe + era * 400
  IN  [year |-> IF m <= 2 THEN y + 1 ELSE y, month |-> m, date |-> d]

\* the dates the model computes with: 2015-06-01 .. 2018-09-30
FirstDay == DaysFromCivil(2015, 6, 1)
LastDay == DaysFromCivil(2018, 9, 30)
DayRange == FirstDay..LastDay

\* the civil date of every day of the range, computed once
Civil == [z \in DayRange |-> CivilFromDays(z)]

\* moment#year()
YearOf(day) == Civil[day].year

\* moment#month(): 0-based
MonthOf(day) == Civil[day].month - 1

\* moment#date()
DateOf(day) == Civil[day].date

\* moment#day(): 0 is Sunday; 1970-01-01 was a Thursday
DayOfWeek(day) == (day + 4) % 7

\* moment#clone().startOf('month')
StartOfMonth(day) == day - (DateOf(day) - 1)

\* moment#add(n, 'days')
AddDays(day, n) == day + n

\* moment#isSame(other, 'day')
IsSameDay(a, b) == a = b

\* moment#dayOfYear(): 1-based
DayOfYear(day) == day - DaysFromCivil(YearOf(day), 1, 1) + 1

\* the default ('en') locale of moment: weeks start on Sunday (dow 0) and
\* week 1 is the week that contains January 1st (doy 6)
LocaleDow == 0
LocaleDoy == 6

\* moment's firstWeekOffset(year, dow, doy)
FirstWeekOffset(year) ==
  LET fwd   == 7 + LocaleDow - LocaleDoy
      fwdlw == (7 + DayOfWeek(DaysFromCivil(year, 1, fwd)) - LocaleDow) % 7
  IN  fwd - fwdlw - 1

\* moment's weeksInYear(year, dow, doy)
WeeksInYear(year) ==
  (DaysInYear(year) - FirstWeekOffset(year) + FirstWeekOffset(year + 1)) \div 7

\* moment's weekOfYear(mom, dow, doy).week: moment#weeks()
WeekOfYear(day) ==
  LET year == YearOf(day)
      week == (DayOfYear(day) - FirstWeekOffset(year) - 1 + 7) \div 7
  IN  IF week < 1 THEN week + WeeksInYear(year - 1)
      ELSE IF week > WeeksInYear(year) THEN week - WeeksInYear(year)
      ELSE week

Weeks == [z \in DayRange |-> WeekOfYear(z)]

(***************************************************************************)
(* Strings: the JavaScript and moment operations parseData applies.         *)
(***************************************************************************)
Digits == <<"0", "1", "2", "3", "4", "5", "6", "7", "8", "9">>

UpperCase == <<"A", "B", "C", "D", "E", "F", "G", "H", "I", "J", "K", "L", "M",
               "N", "O", "P", "Q", "R", "S", "T", "U", "V", "W", "X", "Y", "Z">>

LowerCase == <<"a", "b", "c", "d", "e", "f", "g", "h", "i", "j", "k", "l", "m",
               "n", "o", "p", "q", "r", "s", "t", "u", "v", "w", "x", "y", "z">>

\* the character at 1-based position i
CharAt(s, i) == SubSeq(s, i, i)

IsDigit(c) == \E i \in 1..10 : Digits[i] = c

\* the letters of moment's matchWord that occur in the inputs: ' and a-z, i flag
IsLetter(c) == c = "'" \/ \E i \in 1..26 : UpperCase[i] = c \/ LowerCase[i] = c

ToLowerChar(c) ==
  IF \E i \in 1..26 : UpperCase[i] = c
  THEN LowerCase[CHOOSE i \in 1..26 : UpperCase[i] = c]
  ELSE c

RECURSIVE ToLower(_)
ToLower(s) ==
  IF s = "" THEN ""
  ELSE IF Len(s) = 1 THEN ToLowerChar(s)
  ELSE ToLowerChar(CharAt(s, 1)) \o ToLower(SubSeq(s, 2, Len(s)))

\* String.prototype.indexOf(needle), 0-based, -1 when absent
IndexOf(s, needle) ==
  LET hits == {i \in 1..(Len(s) - Len(needle) + 1) :
                 SubSeq(s, i, i + Len(needle) - 1) = needle}
  IN  IF hits = {} THEN -1 ELSE (CHOOSE i \in hits : \A j \in hits : i <= j) - 1

\* String.prototype.includes(needle)
Includes(s, needle) == IndexOf(s, needle) >= 0

\* String.prototype.substr(start): a negative start counts from the end
SubstrFrom(s, start) ==
  LET from == IF start < 0 THEN (IF Len(s) + start < 0 THEN 0 ELSE Len(s) + start)
              ELSE start
  IN  IF from >= Len(s) THEN "" ELSE SubSeq(s, from + 1, Len(s))

\* String.prototype.substr(0, 1)
FirstChar(s) == IF s = "" THEN "" ELSE SubSeq(s, 1, 1)

\* String.prototype.split('-')[0]
BeforeDash(s) ==
  IF IndexOf(s, "-") < 0 THEN s
  ELSE IF IndexOf(s, "-") = 0 THEN ""
  ELSE SubSeq(s, 1, IndexOf(s, "-"))

\* parseInt of a string of at most one character
ParseInt(c) ==
  IF Len(c) = 1 /\ IsDigit(c) THEN (CHOOSE i \in 1..10 : Digits[i] = c) - 1 ELSE NaN

StartsWith(s, prefix) ==
  Len(s) >= Len(prefix) /\ SubSeq(s, 1, Len(prefix)) = prefix

\* the length of the run of characters satisfying the class, from position i on
RECURSIVE DigitRun(_, _)
DigitRun(s, i) ==
  IF i <= Len(s) /\ IsDigit(CharAt(s, i)) THEN 1 + DigitRun(s, i + 1) ELSE 0

RECURSIVE LetterRun(_, _)
LetterRun(s, i) ==
  IF i <= Len(s) /\ IsLetter(CharAt(s, i)) THEN 1 + LetterRun(s, i + 1) ELSE 0

\* string.match(matchWord)[0]: the leftmost run of digits directly followed by
\* letters (the token 'dddd' of a non-strict parse); "" when there is none
MatchWord(s) ==
  LET starts == {p \in 1..Len(s) : LetterRun(s, p + DigitRun(s, p)) > 0}
  IN  IF starts = {} THEN ""
      ELSE LET p == CHOOSE q \in starts : \A r \in starts : q <= r
               n == DigitRun(s, p)
           IN  SubSeq(s, p, p + n + LetterRun(s, p + n) - 1)

\* the weekday names of the 'en' locale, Sunday first
WeekdayNames == <<"sunday", "monday", "tuesday", "wednesday", "thursday",
                  "friday", "saturday">>

WeekdayShort == <<"sun", "mon", "tue", "wed", "thu", "fri", "sat">>

WeekdayMin == <<"su", "mo", "tu", "we", "th", "fr", "sa">>

\* locale.weekdaysParse(name, 'dddd', false): the first weekday one of whose
\* names the word starts with, case-insensitive; NaN for none
WeekdaysParse(word) ==
  LET w    == ToLower(word)
      hits == {i \in 1..7 : \/ StartsWith(w, WeekdayNames[i])
                            \/ StartsWith(w, WeekdayShort[i])
                            \/ StartsWith(w, WeekdayMin[i])}
  IN  IF hits = {} THEN NaN ELSE (CHOOSE i \in hits : \A j \in hits : i <= j) - 1

\* moment(dayStr, 'dddd').day(): an invalid moment answers NaN
getDayIndex(dayStr) ==
  IF MatchWord(dayStr) = "" THEN NaN ELSE WeekdaysParse(MatchWord(dayStr))

(***************************************************************************)
(* The records of the upstream service and parseData.                       *)
(***************************************************************************)
\* a response body: null, {features: []}, {features: [{attributes: {}}]}
\* (the schedule field missing), or {features: [{attributes: {FIELD: value}}]}
NullData == [kind |-> "null", value |-> ""]
NoFeatures == [kind |-> "nofeatures", value |-> ""]
NoField == [kind |-> "nofield", value |-> ""]
Feature(value) == [kind |-> "feature", value |-> value]

isValidData(data) == data.kind \in {"nofield", "feature"}

\* the attribute read from a valid record; a missing attribute is undefined
Attribute(data) == IF data.kind = "feature" THEN data.value ELSE "undefined"

\* parseData raises a TypeError when it calls substr or split on undefined
parseDataThrows(wasteData, junkData, recyclingData) ==
  junkData.kind = "nofield" \/ recyclingData.kind = "nofield"

\* mutant of parseWasteDay: the day starts as 0 instead of -1
parseWasteDayFromZero(wasteData) ==
  IF isValidData(wasteData) THEN getDayIndex(Attribute(wasteData)) ELSE 0

\* waste is one day a week
parseWasteDay(wasteData) ==
  IF isValidData(wasteData) THEN getDayIndex(Attribute(wasteData)) ELSE -1

\* heavy trash pickup is in the form of #rd WEEKDAY: the ordinal
parseJunkWeekOfMonth(junkData) ==
  IF isValidData(junkData) THEN ParseInt(FirstChar(Attribute(junkData))) ELSE -1

\* heavy trash pickup is in the form of #rd WEEKDAY: the weekday
parseJunkDay(junkData) ==
  IF isValidData(junkData)
  THEN getDayIndex(SubstrFrom(Attribute(junkData), IndexOf(Attribute(junkData), " ")))
  ELSE -1

\* recycling pickup is alternating weeks: the weekday
parseRecyclingDay(recyclingData) ==
  IF isValidData(recyclingData)
  THEN getDayIndex(BeforeDash(Attribute(recyclingData)))
  ELSE -1

\* recycling pickup is alternating weeks: schedule A is the odd weeks
parseRecyclingOnEvenWeeks(recyclingData) ==
  IF isValidData(recyclingData)
  THEN ~Includes(Attribute(recyclingData), "-A")
  ELSE FALSE

\* the value parseData gives pickupDays when it does not throw
parseData(wasteData, junkData, recyclingData) ==
  [wasteDay |-> parseWasteDay(wasteData),
   junkWeekOfMonth |-> parseJunkWeekOfMonth(junkData),
   junkDay |-> parseJunkDay(junkData),
   recyclingDay |-> parseRecyclingDay(recyclingData),
   recyclingOnEvenWeeks |-> parseRecyclingOnEvenWeeks(recyclingData)]

(***************************************************************************)
(* The day classifier.  pickupDays is the record parseData builds.          *)
(***************************************************************************)
isWasteDay(day, pickupDays) == JsEq(DayOfWeek(day), pickupDays.wasteDay)

\* the while loop of isHeavyDay: the value of dayInMonth when the loop exits
RECURSIVE HeavyLoop(_, _, _)
HeavyLoop(dayInMonth, occurances, pickupDays) ==
  IF JsLt(occurances, pickupDays.junkWeekOfMonth)
  THEN HeavyLoop(AddDays(dayInMonth, 1),
                 IF JsEq(DayOfWeek(dayInMonth), pickupDays.junkDay)
                 THEN occurances + 1 ELSE occurances,
                 pickupDays)
  ELSE dayInMonth

\* the loop of isHeavyDay never exits: it is entered (0 < junkWeekOfMonth) and
\* no weekday a date can have equals junkDay, so occurances stays 0 for ever
isHeavyDayDiverges(pickupDays) ==
  /\ JsLt(0, pickupDays.junkWeekOfMonth)
  /\ \A weekday \in 0..6 : ~JsEq(weekday, pickupDays.junkDay)

\* mutant of isHeavyDay: the day added last is not taken back
isHeavyDayNoOffset(day, pickupDays) ==
  IsSameDay(HeavyLoop(StartOfMonth(day), 0, pickupDays), day)

\* isHeavyDay where its loop exits
isHeavyDay(day, pickupDays) ==
  IsSameDay(AddDays(HeavyLoop(StartOfMonth(day), 0, pickupDays), -1), day)

\* mutant of isEvenMonth: the 0-based month number is tested
isEvenMonthZeroBased(day) == MonthOf(day) % 2 = 0

isEvenMonth(day) == (MonthOf(day) + 1) % 2 = 0

isTreeDay(day, pickupDays) == ~isEvenMonth(day) /\ isHeavyDay(day, pickupDays)

isJunkDay(day, pickupDays) == isEvenMonth(day) /\ isHeavyDay(day, pickupDays)

isEvenWeek(day) == Weeks[day] % 2 = 0

isRecyclingDay(day, pickupDays) ==
  LET isThisWeek == \/ pickupDays.recyclingOnEvenWeeks /\ isEvenWeek(day)
                    \/ ~pickupDays.recyclingOnEvenWeeks /\ ~isEvenWeek(day)
  IN  isThisWeek /\ JsEq(DayOfWeek(day), pickupDays.recyclingDay)

\* mutant of isPossibleHoliday: the dates are compared by month
isPossibleHolidaySameMonth(day, holidayTable) ==
  \E d \in holidayTable : StartOfMonth(d) = StartOfMonth(day)

isPossibleHoliday(day, holidayTable) ==
  \E d \in holidayTable : IsSameDay(d, day)

\* the pairs of eventsForDay whose value is true, in the order of the keys
getCategoriesForDay(day, pickupDays) ==
  (IF isWasteDay(day, pickupDays) THEN <<"waste">> ELSE <<>>)
  \o (IF isJunkDay(day, pickupDays) THEN <<"junk">> ELSE <<>>)
  \o (IF isTreeDay(day, pickupDays) THEN <<"tree">> ELSE <<>>)
  \o (IF isRecyclingDay(day, pickupDays) THEN <<"recycling">> ELSE <<>>)

(***************************************************************************)
(* The window generator.                                                    *)
(***************************************************************************)
\* lodash 4 _.range(0, end): the step is 1 when 0 < end and -1 otherwise
Range(end) ==
  IF end > 0 THEN [i \in 1..end |-> i - 1]
  ELSE IF end < 0 THEN [i \in 1..(-end) |-> 1 - i]
  ELSE <<>>

groupEvents(day, pickupDays, holidayTable) ==
  [day |-> day,
   categories |-> getCategoriesForDay(day, pickupDays),
   possibleHoliday |-> isPossibleHoliday(day, holidayTable)]

\* mutant of FilterEvents: days without a category are kept
KeepAllEvents(events) == events

\* Array.prototype.filter: the elements that pass, in their order
RECURSIVE FilterEvents(_)
FilterEvents(events) ==
  IF events = <<>> THEN <<>>
  ELSE (IF Len(Head(events).categories) # 0 THEN <<Head(events)>> ELSE <<>>)
       \o FilterEvents(Tail(events))

\* the callback getUpcomingEvents runs once whenLoaded is resolved
getUpcomingEvents(numberOfDays, now, pickupDays, holidayTable) ==
  LET days == [i \in DOMAIN Range(numberOfDays) |->
                 AddDays(now, Range(numberOfDays)[i])]
  IN  FilterEvents([i \in DOMAIN days |->
                      groupEvents(days[i], pickupDays, holidayTable)])

\* the callback never returns: it classifies a day and isHeavyDay spins
getUpcomingEventsHangs(numberOfDays, pickupDays) ==
  Range(numberOfDays) # <<>> /\ isHeavyDayDiverges(pickupDays)

(***************************************************************************)
(* The /upcoming handler.                                                   *)
(***************************************************************************)
\* decimal digits of a number, at least width of them
RECURSIVE Pad(_, _)
Pad(n, width) ==
  IF width <= 1 /\ n < 10 THEN Digits[n + 1]
  ELSE Pad(n \div 10, width - 1) \o Digits[(n % 10) + 1]

\* moment#format("YYYY-MM-DD")
Format(day) ==
  Pad(YearOf(day), 4) \o "-" \o Pad(MonthOf(day) + 1, 2) \o "-" \o Pad(DateOf(day), 2)

\* Object.assign(event, {day: event.day.format("YYYY-MM-DD")})
jsonEvents(events) ==
  [i \in DOMAIN events |-> [events[i] EXCEPT !.day = Format(events[i].day)]]

\* the default of getUpcomingEvents and of the handler
DefaultDays == 60

\* request.query.days is absent or a string of digits: <<>> or <<number>>
Absent == <<>>

Days(n) == <<n>>

\* request.query.days || 60: a string of digits is truthy and is kept, and
\* _.range converts it to the number
DaysOrDefault(queryDays) == IF queryDays = Absent THEN DefaultDays ELSE queryDays[1]

(***************************************************************************)
(* The inputs the specifications draw from.                                 *)
(***************************************************************************)
WeekdayUpper == <<"SUNDAY", "MONDAY", "TUESDAY", "WEDNESDAY", "THURSDAY",
                  "FRIDAY", "SATURDAY">>

OrdinalSuffix == <<"st", "nd", "rd", "th", "th", "th", "th", "th", "th">>

\* "3rd TUESDAY"
HeavyString(n, weekday) ==
  Digits[n + 1] \o OrdinalSuffix[n] \o " " \o WeekdayUpper[weekday + 1]

\* heavy records whose string sets both fields
HeavyValid ==
  {Feature(HeavyString(n, w)) : n \in 1..MaxOrdinal, w \in 0..6}

\* heavy records that leave junkWeekOfMonth or junkDay unset: a missing
\* record, an empty string, a non-digit first character (with and without a
\* weekday name), and a leading digit without a recognisable weekday name
HeavyUnset ==
  {NullData, NoFeatures, Feature(""), Feature("TUESDAY"), Feature("x MONDAY"),
   Feature("3 Foo"), Feature("3TUESDAY"), Feature("0th FRIDAY")}

WasteRecords ==
  {NullData, NoFeatures, NoField, Feature("")}
    \cup {Feature(WeekdayUpper[w + 1]) : w \in 0..6}

RecyclingRecords ==
  {NullData, NoFeatures, Feature(""), Feature("MONDAY")}
    \cup {Feature(WeekdayUpper[w + 1] \o suffix) : w \in 0..6, suffix \in {"-A", "-B"}}

\* the record triples of the engine specification: one record ranges over all
\* its values while the other two are fixed
EngineRecords ==
  {<<w, Feature("2nd MONDAY"), Feature("FRIDAY-B")>> : w \in WasteRecords}
    \cup {<<Feature("Wednesday"), h, NullData>> : h \in HeavyValid \cup HeavyUnset}
    \cup {<<NullData, NoFeatures, r>> : r \in RecyclingRecords}

\* the start dates of the engine specification, from 2015-12-07 on
EngineStarts ==
  {DaysFromCivil(2015, 12, 7) + FirstStartOffset + StartStep * k : k \in 0..(NumStarts - 1)}

EngineDays == {Absent, Days(-MaxBack), Days(0)}

\* the requests of the server specification: <<records, query.days>>
ServerRequests ==
  {<<<<Feature("WEDNESDAY"), Feature("2nd MONDAY"), Feature("FRIDAY-B")>>, Absent>>,
   <<<<Feature("MONDAY"), NoFeatures, Feature("MONDAY-A")>>, Days(MaxDaysAsked)>>,
   <<<<NullData, Feature("3 Foo"), NullData>>, Days(MaxDaysAsked)>>,
   <<<<Feature("TUESDAY"), NoField, Feature("TUESDAY-A")>>, Days(0)>>,
   <<<<NullData, Feature("1st SUNDAY"), Feature("SUNDAY-B")>>, Days(-MaxBack)>>}

ServerStarts == {DaysFromCivil(2016, 12, 24)}

\* holiday tables: none, and a table of dates around the turns of the years
HolidayTables ==
  {{},
   {DaysFromCivil(2015, 12, 25), DaysFromCivil(2016, 1, 1), DaysFromCivil(2016, 1, 18),
    DaysFromCivil(2016, 5, 30), DaysFromCivil(2016, 7, 4), DaysFromCivil(2016, 9, 5),
    DaysFromCivil(2016, 11, 24), DaysFromCivil(2016, 12, 25), DaysFromCivil(2016, 12, 26),
    DaysFromCivil(2017, 1, 1), DaysFromCivil(2017, 1, 2), DaysFromCivil(2017, 1, 16),
    DaysFromCivil(2017, 5, 29), DaysFromCivil(2017, 7, 4), DaysFromCivil(2017, 9, 4),
    DaysFromCivil(2017, 11, 23), DaysFromCivil(2017, 12, 25), DaysFromCivil(2018, 1, 1)}}

ReqIds == {1, 2}

Sources == 1..3

(***************************************************************************)
(* State.                                                                   *)
(***************************************************************************)
VARIABLES
  today,       \* moment().startOf('day'): the civil date of the clock
  holidays,    \* HoustonScheduler.holidays, the table HOLIDAYS
  reqs,        \* the /upcoming requests in flight
  query,       \* request.query.days of each request
  records,     \* the bodies the three upstream queries answer with
  fetch,       \* the three axios promises: pending, resolved, rejected
  whenLoaded,  \* scheduler.whenLoaded: pending, resolved, rejected
  pickupDays,  \* scheduler.pickupDays: undefined until parseData sets it
  upcoming,    \* the promise getUpcomingEvents returned
  reply,       \* the replies the handler has sent
  parseCalls,  \* how many times parseData has run
  blocked,     \* the event loop is stuck in a loop that never exits
  timerPhase   \* the event loop is running timers that expired together

vars == <<today, holidays, reqs, query, records, fetch, whenLoaded, pickupDays,
          upcoming, reply, parseCalls, blocked, timerPhase>>

Undefined == <<>>

PendingUpcoming == [state |-> "pending", events |-> <<>>]

\* the state the handler leaves a request in when it returns: the scheduler is
\* constructed, its three queries are sent, getUpcomingEvents has been called
Started(ids, now, table, input) ==
  /\ today = now
  /\ holidays = table
  /\ reqs = ids
  /\ query = [r \in ReqIds |-> IF r \in ids THEN input[r][2] ELSE Absent]
  /\ records = [r \in ReqIds |->
                  IF r \in ids THEN input[r][1] ELSE <<NullData, NullData, NullData>>]
  /\ fetch = [r \in ReqIds |-> [i \in Sources |-> "pending"]]
  /\ whenLoaded = [r \in ReqIds |-> "pending"]
  /\ pickupDays = [r \in ReqIds |-> Undefined]
  /\ upcoming = [r \in ReqIds |-> PendingUpcoming]
  /\ reply = [r \in ReqIds |-> <<>>]
  /\ parseCalls = [r \in ReqIds |-> 0]
  /\ blocked = FALSE
  /\ timerPhase = FALSE

\* two concurrent requests
Init ==
  \E now \in ServerStarts, table \in HolidayTables,
     input \in [ReqIds -> ServerRequests] :
       Started(ReqIds, now, table, input)

\* one request, over the wide range of records and start dates
InitEngine ==
  \E now \in EngineStarts, table \in HolidayTables,
     triple \in EngineRecords, days \in EngineDays :
       Started({1}, now, table, [r \in ReqIds |-> <<triple, days>>])

(***************************************************************************)
(* Steps of the event loop.  The callback of an upstream answer is a task;  *)
(* the promise reactions it makes runnable are run, one after the other,    *)
(* before the next task.  The 15000 ms timeouts are timers of one duration: *)
(* a Node release before 11 runs the timers that have expired together back *)
(* to back and the promise reactions only after the last of them, a later   *)
(* release runs the reactions after each timer.  The source names no        *)
(* release, so both orders are steps of the model.  Nothing runs once a     *)
(* callback spins for ever.                                                 *)
(***************************************************************************)
\* mutant of AllFetched: the then callback runs as soon as one promise is
\* fulfilled
AnyFetched(r) == \E i \in Sources : fetch[r][i] = "resolved"

\* Promise.all is fulfilled: every promise is
AllFetched(r) == \A i \in Sources : fetch[r][i] = "resolved"

\* Promise.all is rejected: one promise is
SomeFetchFailed(r) == \E i \in Sources : fetch[r][i] = "rejected"

\* whenLoaded is resolved, so the callback of getUpcomingEvents may run
Loaded(r) == whenLoaded[r] = "resolved"

\* a promise reaction of request r is queued
ReactionQueued(r) ==
  \/ whenLoaded[r] = "pending" /\ (AllFetched(r) \/ SomeFetchFailed(r))
  \/ Loaded(r) /\ upcoming[r].state = "pending"
  \/ upcoming[r].state = "resolved" /\ reply[r] = <<>>
  \/ whenLoaded[r] = "rejected" /\ reply[r] = <<>>

\* the event loop takes the next task: no reaction is queued
Idle == ~blocked /\ \A q \in reqs : ~ReactionQueued(q)

\* an upstream query answers
FetchResolve(r, i) ==
  /\ r \in reqs
  /\ Idle
  /\ fetch[r][i] = "pending"
  /\ fetch' = [fetch EXCEPT ![r][i] = "resolved"]
  /\ timerPhase' = FALSE
  /\ UNCHANGED <<today, holidays, reqs, query, records, whenLoaded, pickupDays,
                 upcoming, reply, parseCalls, blocked>>

\* an upstream query fails, or runs into the 15000 ms timeout: the next task,
\* or the next timer of the run of expired timers the event loop is in
FetchReject(r, i) ==
  /\ r \in reqs
  /\ ~blocked
  /\ Idle \/ timerPhase
  /\ fetch[r][i] = "pending"
  /\ fetch' = [fetch EXCEPT ![r][i] = "rejected"]
  /\ timerPhase' = TRUE
  /\ UNCHANGED <<today, holidays, reqs, query, records, whenLoaded, pickupDays,
                 upcoming, reply, parseCalls, blocked>>

\* the then callback of the constructor: parseData on the three bodies
PromiseAllThen(r) ==
  /\ r \in reqs
  /\ ~blocked
  /\ whenLoaded[r] = "pending"
  /\ AllFetched(r)
  /\ parseCalls' = [parseCalls EXCEPT ![r] = @ + 1]
  /\ IF parseDataThrows(records[r][1], records[r][2], records[r][3])
     THEN /\ whenLoaded' = [whenLoaded EXCEPT ![r] = "rejected"]
          /\ UNCHANGED pickupDays
     ELSE /\ whenLoaded' = [whenLoaded EXCEPT ![r] = "resolved"]
          /\ pickupDays' = [pickupDays EXCEPT
               ![r] = <<parseData(records[r][1], records[r][2], records[r][3])>>]
  /\ timerPhase' = FALSE
  /\ UNCHANGED <<today, holidays, reqs, query, records, fetch, upcoming, reply,
                 blocked>>

\* Promise.all rejects with the first failure: the then callback is skipped
PromiseAllReject(r) ==
  /\ r \in reqs
  /\ ~blocked
  /\ whenLoaded[r] = "pending"
  /\ SomeFetchFailed(r)
  /\ whenLoaded' = [whenLoaded EXCEPT ![r] = "rejected"]
  /\ timerPhase' = FALSE
  /\ UNCHANGED <<today, holidays, reqs, query, records, fetch, pickupDays,
                 upcoming, reply, parseCalls, blocked>>

\* the then callback of getUpcomingEvents: the window is classified
GetUpcomingEventsThen(r) ==
  /\ r \in reqs
  /\ ~blocked
  /\ Loaded(r)
  /\ upcoming[r].state = "pending"
  /\ IF getUpcomingEventsHangs(DaysOrDefault(query[r]), pickupDays[r][1])
     THEN /\ upcoming' = [upcoming EXCEPT ![r] = [state |-> "running", events |-> <<>>]]
          /\ blocked' = TRUE
     ELSE /\ upcoming' = [upcoming EXCEPT ![r] =
               [state |-> "resolved",
                events |-> getUpcomingEvents(DaysOrDefault(query[r]), today,
                                             pickupDays[r][1], holidays)]]
          /\ UNCHANGED blocked
  /\ timerPhase' = FALSE
  /\ UNCHANGED <<today, holidays, reqs, query, records, fetch, whenLoaded,
                 pickupDays, reply, parseCalls>>

\* the then callback of the handler: the events and the schedule are sent
HandlerThen(r) ==
  /\ r \in reqs
  /\ ~blocked
  /\ upcoming[r].state = "resolved"
  /\ reply[r] = <<>>
  /\ reply' = [reply EXCEPT ![r] = Append(@,
       [status |-> 200,
        events |-> jsonEvents(upcoming[r].events),
        schedule |-> pickupDays[r]])]
  /\ timerPhase' = FALSE
  /\ UNCHANGED <<today, holidays, reqs, query, records, fetch, whenLoaded,
                 pickupDays, upcoming, parseCalls, blocked>>

\* mutant of HandlerCatch: the promise chain of the handler has no catch
HandlerWithoutCatch(r) ==
  /\ FALSE
  /\ UNCHANGED vars

\* the catch callback of the handler: Boom.gatewayTimeout
HandlerCatch(r) ==
  /\ r \in reqs
  /\ ~blocked
  /\ whenLoaded[r] = "rejected"
  /\ reply[r] = <<>>
  /\ reply' = [reply EXCEPT ![r] = Append(@,
       [status |-> 504, events |-> <<>>, schedule |-> Undefined])]
  /\ timerPhase' = FALSE
  /\ UNCHANGED <<today, holidays, reqs, query, records, fetch, whenLoaded,
                 pickupDays, upcoming, parseCalls, blocked>>

Next ==
  \/ \E r \in ReqIds, i \in Sources : FetchResolve(r, i)
  \/ \E r \in ReqIds, i \in Sources : FetchReject(r, i)
  \/ \E r \in ReqIds : PromiseAllThen(r)
  \/ \E r \in ReqIds : PromiseAllReject(r)
  \/ \E r \in ReqIds : GetUpcomingEventsThen(r)
  \/ \E r \in ReqIds : HandlerThen(r)
  \/ \E r \in ReqIds : HandlerCatch(r)

\* the server: two requests in flight
Spec == Init /\ [][Next]_vars

\* the engine: one request
SpecEngine == InitEngine /\ [][Next]_vars

(***************************************************************************)
(* Properties.                                                              *)
(***************************************************************************)
\* the promise of getUpcomingEvents has just been resolved with its events
Returned(r) == r \in reqs /\ upcoming[r].state = "resolved" /\ reply[r] = <<>>

\* parseData has just set pickupDays
Parsed(r) == r \in reqs /\ Loaded(r) /\ upcoming[r].state = "pending"

Has(event, tag) == \E k \in DOMAIN event.categories : event.categories[k] = tag

Carries(categories, tag) == \E k \in DOMAIN categories : categories[k] = tag

\* the events of a sequence that carry a tag, in their order
RECURSIVE WithTag(_, _)
WithTag(events, tag) ==
  IF events = <<>> THEN <<>>
  ELSE (IF Has(Head(events), tag) THEN <<Head(events)>> ELSE <<>>)
       \o WithTag(Tail(events), tag)

\* the dates of the calendar month that starts on first
MonthDays(first) == {d \in first..(first + 30) : StartOfMonth(d) = first}

\* the dates a request asks for, as a forward window of n days
Window(now, n) == now..(now + n - 1)

\* C1: in a window of n >= 0 days the dates that carry recycling all fall on
\* recyclingDay and two consecutive ones are exactly 14 days apart
C1_RecyclingEvery14Days ==
  \A r \in reqs :
    (Returned(r) /\ DaysOrDefault(query[r]) >= 0
       /\ pickupDays[r][1].recyclingDay \in 0..6) =>
      LET rec == WithTag(upcoming[r].events, "recycling")
      IN  \A i \in DOMAIN rec :
            /\ DayOfWeek(rec[i].day) = pickupDays[r][1].recyclingDay
            /\ i > 1 => rec[i].day - rec[i - 1].day = 14

\* C2: with junkDay w in 0..6 and junkWeekOfMonth n >= 1, isHeavyDay is true
\* for exactly the n-th occurrence of w of a month that has n of them, and
\* for no date of a month that has fewer
C2_HeavyDayIsNthOccurrence ==
  \A r \in reqs :
    (Parsed(r) /\ pickupDays[r][1].junkDay \in 0..6
       /\ IsNum(pickupDays[r][1].junkWeekOfMonth)
       /\ pickupDays[r][1].junkWeekOfMonth >= 1) =>
      LET pd    == pickupDays[r][1]
          month == MonthDays(StartOfMonth(today))
          occ   == {d \in month : DayOfWeek(d) = pd.junkDay}
          heavy == {d \in month : isHeavyDay(d, pd)}
      IN  IF Cardinality(occ) >= pd.junkWeekOfMonth
          THEN heavy = {d \in occ :
                          Cardinality({e \in occ : e < d}) = pd.junkWeekOfMonth - 1}
          ELSE heavy = {}

\* C2 witness: a fifth occurrence is asked for in a month that has four, and
\* the walk has run for every date of the month; and (in another month of
\* the same window) the fifth occurrence exists and is emitted
C2_Witness ==
  /\ Returned(1)
  /\ pickupDays[1][1].junkWeekOfMonth = 5
  /\ pickupDays[1][1].junkDay \in 0..6
  /\ Cardinality({d \in MonthDays(StartOfMonth(today)) :
                    DayOfWeek(d) = pickupDays[1][1].junkDay}) = 4
  /\ \E i \in DOMAIN upcoming[1].events :
       Has(upcoming[1].events[i], "junk") \/ Has(upcoming[1].events[i], "tree")

\* the heavy rule is unset: no positive ordinal, or no weekday
HeavyRuleUnset(pd) ==
  \/ ~(IsNum(pd.junkWeekOfMonth) /\ pd.junkWeekOfMonth >= 1)
  \/ pd.junkDay \notin 0..6

\* C3: when junkWeekOfMonth or junkDay is unset, the classification returns
\* (isHeavyDay terminates) and no event carries junk or tree
C3_UnsetHeavyRuleNeverMatches ==
  \A r \in reqs :
    (pickupDays[r] # Undefined /\ HeavyRuleUnset(pickupDays[r][1])) =>
      /\ upcoming[r].state # "running"
      /\ \A i \in DOMAIN upcoming[r].events :
           ~Has(upcoming[r].events[i], "junk") /\ ~Has(upcoming[r].events[i], "tree")

\* C4: a window of zero or fewer days has no events
C4_NonPositiveWindowIsEmpty ==
  \A r \in reqs :
    (upcoming[r].state = "resolved" /\ DaysOrDefault(query[r]) <= 0) =>
      upcoming[r].events = <<>>

\* C5: for n >= 0 the events are the dates of the window today .. today+n-1
\* whose category set is not empty, each once and in increasing order
C5_EventsAreSubsequenceOfWindow ==
  \A r \in reqs :
    (Returned(r) /\ DaysOrDefault(query[r]) >= 0) =>
      LET n      == DaysOrDefault(query[r])
          events == upcoming[r].events
          pd     == pickupDays[r][1]
      IN  /\ Len(events) <= n
          /\ \A i \in DOMAIN events :
               /\ events[i].day \in Window(today, n)
               /\ events[i].categories # <<>>
               /\ i > 1 => events[i - 1].day < events[i].day
          /\ \A d \in Window(today, n) :
               (\E i \in DOMAIN events : events[i].day = d)
                 <=> getCategoriesForDay(d, pd) # <<>>

\* C5 witness: a window of 60 days of which some, not all, are emitted
C5_Witness ==
  /\ Returned(1)
  /\ query[1] = Absent
  /\ Len(upcoming[1].events) > 0
  /\ Len(upcoming[1].events) < DefaultDays

\* C8: no date carries both junk and tree; a heavy date carries tree in an
\* odd month and junk in an even month; any other date carries neither
C8_JunkAndTreeExclusive ==
  \A r \in reqs :
    Returned(r) =>
      \A k \in DOMAIN Range(DaysOrDefault(query[r])) :
        LET d    == AddDays(today, Range(DaysOrDefault(query[r]))[k])
            cats == getCategoriesForDay(d, pickupDays[r][1])
            junk == Carries(cats, "junk")
            tree == Carries(cats, "tree")
        IN  /\ ~(junk /\ tree)
            /\ IF isHeavyDay(d, pickupDays[r][1])
               THEN IF Civil[d].month % 2 = 1 THEN tree /\ ~junk ELSE junk /\ ~tree
               ELSE ~junk /\ ~tree

\* C8 witness: one window holds a heavy date of an odd month, emitted as
\* tree, and a heavy date of an even month, emitted as junk
C8_Witness ==
  /\ Returned(1)
  /\ \E i, j \in DOMAIN upcoming[1].events :
       /\ Has(upcoming[1].events[i], "tree")
       /\ Civil[upcoming[1].events[i].day].month % 2 = 1
       /\ Has(upcoming[1].events[j], "junk")
       /\ Civil[upcoming[1].events[j].day].month % 2 = 0

\* an event without its holiday flag
Unflagged(events) ==
  [i \in DOMAIN events |-> <<events[i].day, events[i].categories>>]

\* C9: possibleHoliday of an event says whether its date is in the holiday
\* table, and the dates emitted and their categories are those of any other
\* holiday table
C9_HolidayFlagOnly ==
  \A r \in reqs :
    Returned(r) =>
      /\ \A i \in DOMAIN upcoming[r].events :
           upcoming[r].events[i].possibleHoliday
             <=> upcoming[r].events[i].day \in holidays
      /\ \A table \in HolidayTables :
           Unflagged(upcoming[r].events)
             = Unflagged(getUpcomingEvents(DaysOrDefault(query[r]), today,
                                           pickupDays[r][1], table))

\* C9 witness: a window with a flagged event, an unflagged event and a
\* holiday that is not emitted
C9_Witness ==
  /\ Returned(1)
  /\ \E i, j \in DOMAIN upcoming[1].events :
       upcoming[1].events[i].possibleHoliday /\ ~upcoming[1].events[j].possibleHoliday
  /\ \E d \in holidays :
       /\ d \in Window(today, DaysOrDefault(query[1]))
       /\ \A i \in DOMAIN upcoming[1].events : upcoming[1].events[i].day # d

\* C6 as stated: a request of which a fetch failed while another succeeded
\* is answered with events, not with an error
C6_FailedFetchStillAnswered ==
  \A r \in reqs :
    (SomeFetchFailed(r) /\ AnyFetched(r) /\ reply[r] # <<>>) =>
      reply[r][1].status = 200

\* C6 amended: a failed fetch fails the request as a whole (no rule field is
\* set, the only reply is the 504 error without events); a record that was
\* fetched but is not valid leaves its fields unset (-1, false) while the
\* fields of the valid records are what they are parsed to on their own
C6_InvalidRecordDegradesFailedFetchFails ==
  \A r \in reqs :
    /\ SomeFetchFailed(r) =>
         /\ pickupDays[r] = Undefined
         /\ \A k \in DOMAIN reply[r] :
              reply[r][k].status = 504 /\ reply[r][k].events = <<>>
    /\ pickupDays[r] # Undefined =>
         LET pd == pickupDays[r][1]
             w  == records[r][1]
             j  == records[r][2]
             c  == records[r][3]
         IN  /\ AllFetched(r)
             /\ ~isValidData(w) => pd.wasteDay = -1
             /\ ~isValidData(j) => pd.junkWeekOfMonth = -1 /\ pd.junkDay = -1
             /\ ~isValidData(c) =>
                  pd.recyclingDay = -1 /\ pd.recyclingOnEvenWeeks = FALSE
             /\ isValidData(w) =>
                  pd.wasteDay = parseData(w, NullData, NullData).wasteDay
             /\ isValidData(j) =>
                  /\ pd.junkWeekOfMonth = parseData(NullData, j, NullData).junkWeekOfMonth
                  /\ pd.junkDay = parseData(NullData, j, NullData).junkDay
             /\ isValidData(c) =>
                  /\ pd.recyclingDay = parseData(NullData, NullData, c).recyclingDay
                  /\ pd.recyclingOnEvenWeeks
                       = parseData(NullData, NullData, c).recyclingOnEvenWeeks

\* C6 witness: request 1 got its three records, the heavy one without
\* features, and is answered with waste and recycling events and a schedule
\* whose heavy fields are unset; request 2 lost a fetch and got the 504
C6_Witness ==
  /\ AllFetched(1)
  /\ ~isValidData(records[1][2]) /\ isValidData(records[1][1])
  /\ Len(reply[1]) = 1 /\ reply[1][1].status = 200
  /\ reply[1][1].events # <<>>
  /\ reply[1][1].schedule[1].junkDay = -1
  /\ reply[1][1].schedule[1].wasteDay = 1
  /\ SomeFetchFailed(2) /\ AnyFetched(2)
  /\ Len(reply[2]) = 1 /\ reply[2][1].status = 504

\* C7: once a fetch of a request has failed, parseData and the classification
\* never run for it, it has at most one reply, a reply it has is the 504
\* error, and while it has none the rejection is on its way to the catch
\* callback (the request is not left without a reply)
C7_FailedFetchGetsOneGatewayTimeout ==
  \A r \in reqs :
    SomeFetchFailed(r) =>
      /\ parseCalls[r] = 0
      /\ upcoming[r].state = "pending"
      /\ Len(reply[r]) <= 1
      /\ \A k \in DOMAIN reply[r] : reply[r][k].status = 504
      /\ reply[r] = <<>> => ENABLED (PromiseAllReject(r) \/ HandlerCatch(r))

\* C7 witness: the first fetch of request 1 answered, the other two failed
\* one after the other, and the request has its one 504 reply
C7_Witness ==
  /\ fetch[1] = <<"resolved", "rejected", "rejected">>
  /\ Len(reply[1]) = 1
  /\ reply[1][1].status = 504

\* C10: parseData runs at most once, and only with the three fetches
\* resolved; days are classified only with pickupDays set; the events and the
\* schedule of a successful reply are those of the request's own records
C10_ParseOnceThenClassify ==
  \A r \in reqs :
    /\ parseCalls[r] <= 1
    /\ parseCalls[r] = 1 => \A i \in Sources : fetch[r][i] = "resolved"
    /\ upcoming[r].state # "pending" => pickupDays[r] # Undefined
    /\ pickupDays[r] # Undefined =>
         pickupDays[r][1] = parseData(records[r][1], records[r][2], records[r][3])
    /\ Returned(r) =>
         upcoming[r].events
           = getUpcomingEvents(DaysOrDefault(query[r]), today,
               parseData(records[r][1], records[r][2], records[r][3]), holidays)
    /\ \A k \in DOMAIN reply[r] :
         reply[r][k].status = 200 =>
           /\ reply[r][k].schedule = pickupDays[r]
           /\ reply[r][k].events = jsonEvents(upcoming[r].events)

\* C10 witness: the two requests, with different records, are both answered,
\* each with its own schedule and events
C10_Witness ==
  /\ Len(reply[1]) = 1 /\ reply[1][1].status = 200
  /\ Len(reply[2]) = 1 /\ reply[2][1].status = 200
  /\ records[1] # records[2]
  /\ reply[1][1].schedule # reply[2][1].schedule
  /\ reply[1][1].events # <<>> /\ reply[2][1].events # <<>>
  /\ reply[1][1].events # reply[2][1].events
====
